---- MODULE Spec2Model ----
(***************************************************************************)
(* Attendance (clock in / clock out) of one staff member of the WandaStaff *)
(* app: ClockService over the clockRecords collection and the              *)
(* userClockStatus document, and the two screens that call it              *)
(* (ClockInOutScreen and ScheduleScreen).                                  *)
(*                                                                         *)
(* Time is the device clock in ticks; DayLen ticks make a calendar day     *)
(* (Date.toDateString() equality is equality of the day number).           *)
(* Positions lie on a line through the business location, in metres.       *)
(***************************************************************************)
EXTENDS Integers, Sequences, FiniteSets, TLC

\* ---- bounds of the model ------------------------------------------------
MaxRecords == 2
MaxTime == 2
MaxEvents == 3
MaxDocs == 2
MaxListeners == 2
MaxLoads == 2
MaxSales == 4
MaxBrackets == 2

\* ---- program constants --------------------------------------------------
DayLen == 2
DEFAULT_CLOCK_RADIUS_METERS == 500

\* Positions are metres along a line; the business is at BusinessPosition.
\* The location provider reports the business's position or a position one
\* metre outside the radius; NoLocation stands for "no position" (null).
BusinessPosition == 0
Positions == {BusinessPosition, BusinessPosition + DEFAULT_CLOCK_RADIUS_METERS + 1}
NoLocation == -1

Screens == {"clock", "schedule"}
ClockTypes == {"clock-in", "clock-out"}

NoRecord == [type |-> "none", timestamp |-> 0, distanceFromBusiness |-> 0]
NoStatusDoc == [status |-> "none"]
IdleCall == [pc |-> "idle", type |-> "none", distance |-> 0]

VARIABLES
  now,                  \* device clock (Timestamp.now(), new Date())
  clockRecords,         \* the staff member's documents of collection clockRecords, in append order
  userClockStatus,      \* document userClockStatus/<userId>, or NoStatusDoc
  enforceClockDistance, \* feature flag of the business
  calls,                \* per screen: the ClockService call it has in flight
  lastClockRecord,      \* ClockInOutScreen state
  currentLocation,      \* ClockInOutScreen state (NoLocation = null)
  businessLocation,     \* ClockInOutScreen state (FALSE = null)
  isWithinRange,        \* ScheduleScreen state
  userLocation,         \* ScheduleScreen state (NoLocation = null)
  clockStatus,          \* ScheduleScreen state: clockStatus.isClocked
  fn,                   \* evaluation of a function: the function applied
  args,                 \* evaluation of a function: its arguments
  result,               \* evaluation of a function: what it returned
  alerts,               \* per screen: its "... Successfully" alert is showing
  eventEmitter,         \* global.eventEmitter (created = FALSE: undefined)
  dashboard,            \* DashboardScreen: mounted, user, locationCheckLoading
  flagsDoc,             \* document businesses/<id>/settings/featureFlags
  provider,             \* FeatureFlagsProvider: its state and its effect's closure
  subscriptions,        \* the snapshot listeners subscribed to flagsDoc
  crmUserStatus,        \* document crmUserStatus/<userId>, or NoStatusDoc
  crmSyncLogs,          \* collection crmSyncLogs: the actions logged
  realTimeUpdates,      \* document realTimeUpdates/user_<userId>, or NoStatusDoc
  outcomes,             \* per screen: how its last clockIn / clockOut settled
  dashScreen,           \* DashboardScreen state: user, locationCheckLoading, clockStatus
  dashLoads,            \* the loadClockStatus calls in flight, by order of start
  dashLoadsStarted,     \* how many loadClockStatus calls have started
  authContext,          \* AuthProvider: user (FALSE = null), loading, its timer and listener
  asyncStorage,         \* AsyncStorage holds the item 'staff'
  firebaseAuth          \* auth.currentUser is set; a change not yet told to the listener

\* the attendance state of the app and the state of a function's evaluation
attendanceVars == <<now, clockRecords, userClockStatus, enforceClockDistance, calls,
                    lastClockRecord, currentLocation, businessLocation,
                    isWithinRange, userLocation, clockStatus>>
evalVars == <<fn, args, result>>
notifyVars == <<alerts, eventEmitter, dashboard>>

flagVars == <<flagsDoc, provider, subscriptions>>
crmVars == <<crmUserStatus, crmSyncLogs, realTimeUpdates, outcomes>>
loadVars == <<dashScreen, dashLoads, dashLoadsStarted>>
authVars == <<authContext, asyncStorage, firebaseAuth>>
sideVars == <<flagVars, crmVars, loadVars, authVars>>

vars == <<attendanceVars, evalVars, notifyVars, sideVars>>

\* ---- pure helpers -------------------------------------------------------

\* Date.toDateString(): the calendar day of a timestamp
toDateString(t) == t \div DayLen

\* ClockService.calculateDistance on a line through the business: the
\* distance in metres between two positions
calculateDistance(from, to) ==
  IF from >= to THEN from - to ELSE to - from

\* a displacement that keeps its sign
calculateDistanceLatLng_Signed(lat1, lng1, lat2, lng2) ==
  (lat2 - lat1) + (lng2 - lng1)

\* Math.sin(x / 2) * Math.sin(x / 2) of an angle of a whole number of quarter
\* turns, given in degrees: twice its value (0, 1/2 or 1)
TwiceSinSquaredOfHalf(degrees) ==
  LET quarter == (degrees \div 90) % 4 IN
  IF quarter = 0 THEN 0 ELSE IF quarter = 2 THEN 2 ELSE 1

\* Math.cos of an angle of a whole number of quarter turns, given in degrees
cosOfDegrees(degrees) ==
  LET quarter == (degrees \div 90) % 4 IN
  IF quarter = 0 THEN 1 ELSE IF quarter = 2 THEN -1 ELSE 0

\* 2 * Math.atan2(Math.sqrt(a), Math.sqrt(1 - a)) in microradians, of twice a:
\* 0, pi / 2 and pi for a = 0, 1/2 and 1
TwiceAtan2(twiceA) ==
  CASE twiceA = 0 -> 0
    [] twiceA = 1 -> 1570796
    [] twiceA = 2 -> 3141593

\* R * c in metres, of c in microradians (in two parts, to stay in range)
EarthRadiusMeters == 6371000
TimesEarthRadius(c) ==
  (EarthRadiusMeters \div 1000) * (c \div 1000)
    + ((EarthRadiusMeters \div 1000) * (c % 1000)) \div 1000

\* ClockService.calculateDistance and ScheduleScreen's calculateDistance (the
\* same haversine formula), for coordinates in degrees that are whole
\* quarter turns, where the sines and cosines are exact.  No coordinate is
\* checked against a range and a is not clamped.
calculateDistanceLatLng(lat1, lng1, lat2, lng2) ==
  LET twiceA == TwiceSinSquaredOfHalf(lat2 - lat1)
                  + cosOfDegrees(lat1) * cosOfDegrees(lat2)
                      * TwiceSinSquaredOfHalf(lng2 - lng1) IN
  TimesEarthRadius(TwiceAtan2(twiceA))

\* a range test that puts the radius itself out of range
isOutsideRange_AtRadius(distance, radius) == distance >= radius

\* the range test of getCurrentStatus: out of range is farther than the radius
isOutsideRange(distance, radius) == distance > radius

\* query(clockRecords, where userId, orderBy timestamp desc, limit 1):
\* index of the record with the greatest timestamp (the most recently
\* appended one among equal timestamps), 0 when there is none
LastIndex(recs) ==
  IF Len(recs) = 0 THEN 0
  ELSE CHOOSE i \in 1..Len(recs) :
         \A j \in 1..Len(recs) :
            \/ recs[j].timestamp < recs[i].timestamp
            \/ (recs[j].timestamp = recs[i].timestamp /\ j <= i)

getLastClockRecord(recs, queryOk) ==
  IF ~queryOk \/ Len(recs) = 0 THEN NoRecord ELSE recs[LastIndex(recs)]

\* ClockService.getUserClockStatus: the status it returns (~docOk: reading
\* the status document fails; ~queryOk: the query of the last record fails)
getUserClockStatus(statusDoc, recs, t, docOk, queryOk) ==
  IF ~docOk THEN "unknown"
  ELSE IF statusDoc # NoStatusDoc THEN statusDoc.status
  ELSE LET lastRecord == getLastClockRecord(recs, queryOk) IN
       IF lastRecord # NoRecord
          /\ toDateString(lastRecord.timestamp) = toDateString(t)
         THEN IF lastRecord.type = "clock-in" THEN "clocked-in" ELSE "clocked-out"
         ELSE "clocked-out"

\* ClockInOutScreen.getCurrentStatus
getCurrentStatus(lastRec, curLoc, bizLoc, t) ==
  IF lastRec = NoRecord
    THEN [status |-> "Not clocked in", canClockIn |-> TRUE, isOutsideRange |-> FALSE]
  ELSE IF toDateString(lastRec.timestamp) # toDateString(t)
    THEN [status |-> "Not clocked in today", canClockIn |-> TRUE, isOutsideRange |-> FALSE]
  ELSE IF curLoc # NoLocation /\ bizLoc
          /\ isOutsideRange(calculateDistance(curLoc, BusinessPosition),
                            DEFAULT_CLOCK_RADIUS_METERS)
    THEN [status |-> IF lastRec.type = "clock-in"
                       THEN "Clocked in (from workplace)"
                       ELSE "Outside work area",
          canClockIn |-> FALSE, isOutsideRange |-> TRUE]
  ELSE IF lastRec.type = "clock-in"
    THEN [status |-> "Currently clocked in", canClockIn |-> FALSE, isOutsideRange |-> FALSE]
  ELSE [status |-> "Clocked out", canClockIn |-> TRUE, isOutsideRange |-> FALSE]

currentStatus == getCurrentStatus(lastClockRecord, currentLocation, businessLocation, now)

\* the action button of ClockInOutScreen: what a press does, "none" when the
\* button is disabled because the user is out of range
ClockScreenButton(st) ==
  IF st.isOutsideRange THEN "none"
  ELSE IF st.canClockIn THEN "clock-in" ELSE "clock-out"

\* the two buttons of ScheduleScreen: the set of actions whose button is enabled
ScheduleScreenButtons(withinRange, isClocked) ==
  (IF withinRange /\ ~isClocked THEN {"clock-in"} ELSE {})
  \cup (IF withinRange THEN {"clock-out"} ELSE {})

\* the checks of clockIn / clockOut on the last record, which the source
\* carries commented out: clockIn after a clock-in of today, clockOut with no
\* record or after a clock-out, is not an allowed call
IllegalTransition(type, recs, t) ==
  LET lastRecord == getLastClockRecord(recs, TRUE) IN
  IF type = "clock-in"
    THEN lastRecord # NoRecord /\ lastRecord.type = "clock-in"
         /\ toDateString(lastRecord.timestamp) = toDateString(t)
    ELSE lastRecord = NoRecord \/ lastRecord.type = "clock-out"

InFlight == Cardinality({s \in Screens : calls[s].pc # "idle"})

\* no function is under evaluation
NoResult == [error |-> "pending", value |-> 0]
NoEval ==
  /\ fn = "none"
  /\ args = << >>
  /\ result = NoResult

\* ---- initial state ------------------------------------------------------
AttendanceInit ==
  /\ now = 0
  /\ clockRecords = << >>
  /\ userClockStatus = NoStatusDoc
  /\ enforceClockDistance = TRUE
  /\ calls = [s \in Screens |-> IdleCall]
  /\ lastClockRecord = NoRecord
  /\ currentLocation = NoLocation
  /\ businessLocation = FALSE
  /\ isWithinRange = FALSE
  /\ userLocation = NoLocation
  /\ clockStatus = FALSE

\* global.eventEmitter is undefined and DashboardScreen is not mounted
NoEventEmitter == [created |-> FALSE, listeners |-> << >>]
Unmounted == [mounted |-> FALSE, user |-> FALSE, locationCheckLoading |-> TRUE]
NotifyInit ==
  /\ alerts = [s \in Screens |-> FALSE]
  /\ eventEmitter = NoEventEmitter
  /\ dashboard = Unmounted

\* ---- feature flags ----------------------------------------------------------
\* A set of flags is the fields it holds (present) and their values; a field
\* that is not present carries its default value, so that equal sets are equal.
FlagNames == {"enforceClockDistance", "enablePayslipPDF", "holidayCarryoverMode"}
FlagValues ==
  [enforceClockDistance : BOOLEAN, enablePayslipPDF : BOOLEAN,
   holidayCarryoverMode : {"manual", "auto"}]
DEFAULT_FEATURE_FLAGS ==
  [present |-> FlagNames,
   data |-> [enforceClockDistance |-> TRUE, enablePayslipPDF |-> FALSE,
             holidayCarryoverMode |-> "manual"]]

\* the object with the fields named in present, valued as in data
Partial(present, data) ==
  [present |-> present,
   data |-> [enforceClockDistance |->
               IF "enforceClockDistance" \in present
                 THEN data.enforceClockDistance
                 ELSE DEFAULT_FEATURE_FLAGS.data.enforceClockDistance,
             enablePayslipPDF |->
               IF "enablePayslipPDF" \in present
                 THEN data.enablePayslipPDF
                 ELSE DEFAULT_FEATURE_FLAGS.data.enablePayslipPDF,
             holidayCarryoverMode |->
               IF "holidayCarryoverMode" \in present
                 THEN data.holidayCarryoverMode
                 ELSE DEFAULT_FEATURE_FLAGS.data.holidayCarryoverMode]]
PartialFlags == {Partial(present, data) : present \in SUBSET FlagNames, data \in FlagValues}

\* an assignment of the document's data alone, without the defaults
Spread_OverOnly(base, over) == over

\* { ...base, ...over }
Spread(base, over) ==
  [present |-> base.present \cup over.present,
   data |-> [enforceClockDistance |->
               IF "enforceClockDistance" \in over.present
                 THEN over.data.enforceClockDistance ELSE base.data.enforceClockDistance,
             enablePayslipPDF |->
               IF "enablePayslipPDF" \in over.present
                 THEN over.data.enablePayslipPDF ELSE base.data.enablePayslipPDF,
             holidayCarryoverMode |->
               IF "holidayCarryoverMode" \in over.present
                 THEN over.data.holidayCarryoverMode ELSE base.data.holidayCarryoverMode]]

\* the flags document: absent, or holding some of the flags
NoFlagsDoc == [exists |-> FALSE, flags |-> Partial({}, DEFAULT_FEATURE_FLAGS.data)]
StoredFlags(flags) == [exists |-> TRUE, flags |-> flags]

\* FeatureFlagsService.loadFeatureFlags: the document's data, null (found =
\* FALSE) when there is no document, an error when the read fails
loadFeatureFlags(document, readOk) ==
  IF ~readOk
    THEN [error |-> "Failed to load feature flags", found |-> FALSE,
          value |-> NoFlagsDoc.flags]
    ELSE [error |-> "none", found |-> document.exists, value |-> document.flags]

\* FeatureFlagsService.getFeatureFlagsWithFallback
getFeatureFlagsWithFallback(document, readOk) ==
  LET loaded == loadFeatureFlags(document, readOk) IN
  IF loaded.error # "none" THEN [error |-> "none", value |-> DEFAULT_FEATURE_FLAGS]
  ELSE IF loaded.found
    THEN [error |-> "none", value |-> Spread(DEFAULT_FEATURE_FLAGS, loaded.value)]
  ELSE [error |-> "none", value |-> DEFAULT_FEATURE_FLAGS]

\* FeatureFlagsProvider before it mounts: useState initial values.  unsubscribe
\* is the listener held in state (0: null); cleanup is the value of unsubscribe
\* in the closure of the effect that ran last; businessId: user?.businessId
NoListener == 0
ProviderInitial ==
  [mounted |-> FALSE, businessId |-> FALSE, flags |-> DEFAULT_FEATURE_FLAGS,
   usingDefaults |-> TRUE, loading |-> TRUE, error |-> FALSE,
   unsubscribe |-> NoListener, cleanup |-> NoListener, created |-> 0]
FlagsInit ==
  /\ flagsDoc = NoFlagsDoc
  /\ provider = ProviderInitial
  /\ subscriptions = {}

\* ---- CRM synchronisation ----------------------------------------------------
CrmInit ==
  /\ crmUserStatus = NoStatusDoc
  /\ crmSyncLogs = << >>
  /\ realTimeUpdates = NoStatusDoc
  /\ outcomes = [s \in Screens |-> "none"]

\* ---- loads of the dashboard's status ------------------------------------------
\* DashboardScreen's useState initial values
InitialClockStatus ==
  [isClocked |-> FALSE, canShowClockedIn |-> TRUE, actualStatus |-> "none",
   distance |-> -1]
LoadInit ==
  /\ dashScreen = [user |-> FALSE, locationCheckLoading |-> TRUE,
             clockStatus |-> InitialClockStatus]
  /\ dashLoads = << >>
  /\ dashLoadsStarted = 0

\* ---- authentication ---------------------------------------------------------
\* AuthProvider's useState initial values, on a device that holds no cached
\* staff record and no Firebase user yet
AuthProviderInitial ==
  [user |-> FALSE, loading |-> TRUE, initialized |-> FALSE, listening |-> FALSE,
   timer |-> FALSE]
AuthInit ==
  /\ authContext = AuthProviderInitial
  /\ asyncStorage = FALSE
  /\ firebaseAuth = [currentUser |-> FALSE, changed |-> FALSE]

SideInit == FlagsInit /\ CrmInit /\ LoadInit /\ AuthInit

Init == AttendanceInit /\ NoEval /\ NotifyInit /\ SideInit

\* ---- ClockService.clockIn / clockOut -----------------------------------
\* A call runs in two steps, split where it awaits: ClockLocate is the part up
\* to the record's construction (getCurrentLocation, getBusinessLocation,
\* calculateDistance, reverseGeocode); ClockWrite builds the record with
\* Timestamp.now(), sends addDoc in the same synchronous stretch and then
\* updates the status document.  The store applies one device's writes in the
\* order they were sent.

\* first step of clockIn / clockOut called by screen s.  No check of the last
\* record and none of the distance is made.  location = NoLocation: the
\* position cannot be obtained; ~businessOk: the business lookup fails; in
\* both cases the call fails here and has written nothing.
ClockLocate(s, type, location, businessOk) ==
  calls' = [calls EXCEPT ![s] =
              IF location = NoLocation \/ ~businessOk
                THEN IdleCall
                ELSE [pc |-> "located", type |-> type,
                      distance |-> calculateDistance(location, BusinessPosition)]]

\* a record stamped with the time of day only, the date dropped
NewClockRecord_TimeOfDay(type, distance, t) ==
  [type |-> type, timestamp |-> t % DayLen, distanceFromBusiness |-> distance]

\* the record clockIn / clockOut builds
NewClockRecord(type, distance, t) ==
  [type |-> type, timestamp |-> t, distanceFromBusiness |-> distance]

\* a write under a fixed document id: it replaces the latest record
addDoc_Overwrite(recs, record) ==
  IF Len(recs) = 0 THEN <<record>> ELSE [recs EXCEPT ![Len(recs)] = record]

\* addDoc(collection(firestore, 'clockRecords'), clockRecord): a new document
addDoc(recs, record) ==
  Append(recs, record)

\* ClockService.updateUserClockStatus: a failed write is logged and swallowed
updateUserClockStatus(statusDoc, status, writeOk) ==
  IF writeOk THEN [status |-> status] ELSE statusDoc

\* second step of the call of screen s.  ~recordOk: addDoc is rejected and the
\* call fails; ~statusOk: the status document's write fails.
ClockWrite(s, recordOk, statusOk) ==
  /\ calls[s].pc = "located"
  /\ LET c == calls[s] IN
     /\ IF recordOk
          THEN /\ clockRecords' =
                    addDoc(clockRecords, NewClockRecord(c.type, c.distance, now))
               /\ userClockStatus' =
                    updateUserClockStatus(userClockStatus,
                       IF c.type = "clock-in" THEN "clocked-in" ELSE "clocked-out",
                       statusOk)
          ELSE UNCHANGED <<clockRecords, userClockStatus>>
  /\ calls' = [calls EXCEPT ![s] = IdleCall]
  /\ UNCHANGED <<now, enforceClockDistance, lastClockRecord, currentLocation,
                 businessLocation, isWithinRange, userLocation, clockStatus>>

ClockWriteStep ==
  \E s \in Screens, recordOk \in BOOLEAN, statusOk \in BOOLEAN :
     ClockWrite(s, recordOk, statusOk)

\* ---- ClockInOutScreen ---------------------------------------------------

\* loadClockData: getLastClockRecord returns null on a query error; the
\* business lookup may throw (then nothing more is set); the position is set
\* only when permission is granted and the position is obtained.
loadClockData ==
  /\ \E queryOk \in BOOLEAN, businessOk \in BOOLEAN,
        location \in Positions \cup {NoLocation} :
       /\ lastClockRecord' = getLastClockRecord(clockRecords, queryOk)
       /\ businessLocation' = (businessLocation \/ businessOk)
       /\ currentLocation' =
            IF businessOk /\ location # NoLocation THEN location ELSE currentLocation
  /\ UNCHANGED <<now, clockRecords, userClockStatus, enforceClockDistance, calls,
                 isWithinRange, userLocation, clockStatus>>

\* a press of the action button (and of the dialog's confirmation):
\* handleClockIn when canClockIn, else handleClockOut
ClockScreenPress ==
  /\ calls["clock"].pc = "idle"
  /\ ClockScreenButton(currentStatus) # "none"
  /\ Len(clockRecords) + InFlight < MaxRecords
  /\ \E location \in Positions \cup {NoLocation}, businessOk \in BOOLEAN :
        ClockLocate("clock", ClockScreenButton(currentStatus), location, businessOk)
  /\ UNCHANGED <<now, clockRecords, userClockStatus, enforceClockDistance,
                 lastClockRecord, currentLocation, businessLocation,
                 isWithinRange, userLocation, clockStatus>>

\* ---- ScheduleScreen -----------------------------------------------------

\* checkLocation: whatever the distance, the result is "within range"
checkLocation(location) ==
  /\ isWithinRange' = IF location # NoLocation THEN TRUE ELSE isWithinRange
  /\ userLocation' = IF location # NoLocation THEN location ELSE userLocation

CheckMyLocation ==
  /\ \E location \in Positions \cup {NoLocation} : checkLocation(location)
  /\ UNCHANGED <<now, clockRecords, userClockStatus, enforceClockDistance, calls,
                 lastClockRecord, currentLocation, businessLocation,
                 clockStatus>>

\* ScheduleScreen.loadClockStatus
loadClockStatus ==
  /\ \E docOk \in BOOLEAN, queryOk \in BOOLEAN :
       clockStatus' =
         (getUserClockStatus(userClockStatus, clockRecords, now, docOk, queryOk)
            = "clocked-in")
  /\ UNCHANGED <<now, clockRecords, userClockStatus, enforceClockDistance, calls,
                 lastClockRecord, currentLocation, businessLocation,
                 isWithinRange, userLocation>>

\* handleClockAction(type), started by an enabled button: checkLocation, the
\* range test on the value the handler was rendered with, then the service call
handleClockAction(type) ==
  /\ calls["schedule"].pc = "idle"
  /\ type \in ScheduleScreenButtons(isWithinRange, clockStatus)
  /\ Len(clockRecords) + InFlight < MaxRecords
  /\ \E checked \in Positions \cup {NoLocation},
        location \in Positions \cup {NoLocation}, businessOk \in BOOLEAN :
        /\ checkLocation(checked)
        /\ ClockLocate("schedule", type, location, businessOk)
  /\ UNCHANGED <<now, clockRecords, userClockStatus, enforceClockDistance,
                 lastClockRecord, currentLocation, businessLocation, clockStatus>>

ScheduleScreenPress == \E type \in ClockTypes : handleClockAction(type)

\* ---- environment --------------------------------------------------------

\* the device clock advances
Tick ==
  /\ now < MaxTime
  /\ now' = now + 1
  /\ UNCHANGED <<clockRecords, userClockStatus, enforceClockDistance, calls,
                 lastClockRecord, currentLocation, businessLocation,
                 isWithinRange, userLocation, clockStatus>>

\* FeatureFlagsService.setClockDistanceEnforcement
setClockDistanceEnforcement ==
  /\ \E enforce \in BOOLEAN :
       /\ enforce # enforceClockDistance
       /\ enforceClockDistance' = enforce
  /\ UNCHANGED <<now, clockRecords, userClockStatus, calls,
                 lastClockRecord, currentLocation, businessLocation,
                 isWithinRange, userLocation, clockStatus>>

\* what the attendance actions leave alone
Elsewhere == UNCHANGED <<evalVars, notifyVars, sideVars>>

Next ==
  \/ ClockScreenPress /\ Elsewhere
  \/ ScheduleScreenPress /\ Elsewhere
  \/ ClockWriteStep /\ Elsewhere
  \/ loadClockData /\ Elsewhere
  \/ CheckMyLocation /\ Elsewhere
  \/ loadClockStatus /\ Elsewhere
  \/ Tick /\ Elsewhere
  \/ setClockDistanceEnforcement /\ Elsewhere

Spec == Init /\ [][Next]_vars

\* ---- weekly hours -------------------------------------------------------
\* Timestamps of this part are minutes of local time counted from the
\* midnight that begins a Sunday; a clock record is [userId, type, timestamp].

MinutesPerDay == 24 * 60

\* Date.toDateString() of a timestamp in minutes: its calendar day
toDateStringOfMinutes(t) == t \div MinutesPerDay

\* Date.getDay(): 0 is Sunday
getDay(t) == toDateStringOfMinutes(t) % 7

\* Array.prototype.sort by timestamp.toMillis(): stable, ascending
InsertByTimestamp(sorted, record) ==
  LET k == Cardinality({i \in 1..Len(sorted) :
                          sorted[i].timestamp <= record.timestamp}) IN
  SubSeq(sorted, 1, k) \o <<record>> \o SubSeq(sorted, k + 1, Len(sorted))

RECURSIVE SortByTimestamp(_)
SortByTimestamp(records) ==
  IF Len(records) = 0 THEN << >>
  ELSE InsertByTimestamp(SortByTimestamp(SubSeq(records, 1, Len(records) - 1)),
                         records[Len(records)])

\* dayClockInTime = null
NoClockIn == -1

\* a pairing that keeps the first clock-in while one is open
RECURSIVE DayMinutes_KeepFirst(_, _)
DayMinutes_KeepFirst(dayRecords, dayClockInTime) ==
  IF Len(dayRecords) = 0 THEN 0
  ELSE LET record == Head(dayRecords) IN
       IF record.type = "clock-in"
         THEN DayMinutes_KeepFirst(Tail(dayRecords),
                 IF dayClockInTime = NoClockIn THEN record.timestamp
                                               ELSE dayClockInTime)
       ELSE IF record.type = "clock-out" /\ dayClockInTime # NoClockIn
         THEN (record.timestamp - dayClockInTime)
              + DayMinutes_KeepFirst(Tail(dayRecords), NoClockIn)
       ELSE DayMinutes_KeepFirst(Tail(dayRecords), dayClockInTime)

\* a pairing that closes an open clock-in at the end of its day
RECURSIVE DayMinutes_CloseAtMidnight(_, _)
DayMinutes_CloseAtMidnight(dayRecords, dayClockInTime) ==
  IF Len(dayRecords) = 0
    THEN IF dayClockInTime = NoClockIn THEN 0
         ELSE (toDateStringOfMinutes(dayClockInTime) + 1) * MinutesPerDay
              - dayClockInTime
  ELSE LET record == Head(dayRecords) IN
       IF record.type = "clock-in"
         THEN DayMinutes_CloseAtMidnight(Tail(dayRecords), record.timestamp)
       ELSE IF record.type = "clock-out" /\ dayClockInTime # NoClockIn
         THEN (record.timestamp - dayClockInTime)
              + DayMinutes_CloseAtMidnight(Tail(dayRecords), NoClockIn)
       ELSE DayMinutes_CloseAtMidnight(Tail(dayRecords), dayClockInTime)

\* the inner loop of calculateWeeklyHours over one day's sorted records, from
\* the record at the head on, with dayClockInTime as it stands: the minutes
\* it adds to totalMinutes
RECURSIVE DayMinutes(_, _)
DayMinutes(dayRecords, dayClockInTime) ==
  IF Len(dayRecords) = 0 THEN 0
  ELSE LET record == Head(dayRecords) IN
       IF record.type = "clock-in"
         THEN DayMinutes(Tail(dayRecords), record.timestamp)
       ELSE IF record.type = "clock-out" /\ dayClockInTime # NoClockIn
         THEN (record.timestamp - dayClockInTime)
              + DayMinutes(Tail(dayRecords), NoClockIn)
       ELSE DayMinutes(Tail(dayRecords), dayClockInTime)

\* dayGroups[day]: the records of one calendar day, in the order given
DayGroup(records, day) ==
  SelectSeq(records, LAMBDA r : toDateStringOfMinutes(r.timestamp) = day)

\* the keys of dayGroups
DayKeys(records) ==
  {toDateStringOfMinutes(records[i].timestamp) : i \in 1..Len(records)}

\* ClockService.calculateWeeklyHours, in minutes: what it returns is this
\* number divided by 60.  Records are grouped by calendar day, each group is
\* sorted and paired on its own.
RECURSIVE SumOfDays(_, _)
SumOfDays(records, days) ==
  IF days = {} THEN 0
  ELSE LET day == CHOOSE d \in days : TRUE IN
       DayMinutes(SortByTimestamp(DayGroup(records, day)), NoClockIn)
       + SumOfDays(records, days \ {day})

calculateWeeklyHours(records) ==
  SumOfDays(records, DayKeys(records))

\* the week getWeeklyClockRecords computes from new Date(): Sunday 00:00:00.000
\* and Saturday 23:59:59.999 (the last minute of Saturday)
startOfWeek(t) ==
  (toDateStringOfMinutes(t) - getDay(t)) * MinutesPerDay
endOfWeek(t) ==
  (toDateStringOfMinutes(startOfWeek(t)) + 6) * MinutesPerDay + (MinutesPerDay - 1)

\* a week that runs from Monday to Sunday
getWeeklyClockRecords_FromMonday(store, staffId, t, queryOk) ==
  IF ~queryOk THEN << >>
  ELSE SortByTimestamp(SelectSeq(store, LAMBDA doc :
          /\ doc.userId = staffId
          /\ doc.timestamp >= startOfWeek(t) + MinutesPerDay
          /\ doc.timestamp <= endOfWeek(t) + MinutesPerDay))

\* ClockService.getWeeklyClockRecords over the documents of clockRecords
\* (store, in document order); ~queryOk: the query fails and [] is returned
getWeeklyClockRecords(store, staffId, t, queryOk) ==
  IF ~queryOk THEN << >>
  ELSE SortByTimestamp(SelectSeq(store, LAMBDA doc :
          /\ doc.userId = staffId
          /\ doc.timestamp >= startOfWeek(t)
          /\ doc.timestamp <= endOfWeek(t)))

\* a rounding down to a tenth
RoundToTenths_Floor(minutes) == minutes \div 6

\* Math.round(hours * 10) of hours = minutes / 60: the tenths of an hour
\* nearest to minutes / 6, a half rounded up
RoundToTenths(minutes) == (minutes + 3) \div 6

\* DashboardScreen.calculateWeeklyHours: the value it sets as weeklyHours, in
\* tenths of an hour
DashboardWeeklyHours(store, staffId, t, queryOk) ==
  RoundToTenths(calculateWeeklyHours(getWeeklyClockRecords(store, staffId, t, queryOk)))

\* ---- DashboardScreen: the clock status it shows ---------------------------
NoDistance == -1

\* ClockService.checkLocationForClockStatus.  ~hasPermission: the location
\* permission is refused; location = NoLocation: getCurrentLocation throws;
\* ~businessOk: getBusinessLocation throws.  With a position the answer is
\* canShowClockedIn = true whatever the distance.
checkLocationForClockStatus(hasPermission, location, businessOk) ==
  IF ~hasPermission
    THEN [canShowClockedIn |-> FALSE, distance |-> NoDistance]
  ELSE IF location = NoLocation \/ ~businessOk
    THEN [canShowClockedIn |-> FALSE, distance |-> NoDistance]
  ELSE [canShowClockedIn |-> TRUE,
        distance |-> calculateDistance(location, BusinessPosition)]

\* the clockStatus DashboardScreen.loadClockStatus sets from the status read
\* and the location check
DashboardClockStatus(status, locationCheck) ==
  [isClocked |-> (status = "clocked-in" /\ locationCheck.canShowClockedIn),
   canShowClockedIn |-> locationCheck.canShowClockedIn,
   actualStatus |-> status,
   distance |-> locationCheck.distance]

\* the title of the dashboard's status card
DashboardStatusText(locationCheckLoading, status) ==
  IF locationCheckLoading THEN "Checking location..."
  ELSE IF status.isClocked THEN "Currently clocked in"
  ELSE IF status.actualStatus = "clocked-in" /\ ~status.canShowClockedIn
    THEN "Clocked in (Outside work area)"
  ELSE "Currently clocked out"

\* DashboardScreen.loadClockStatus, run to its end: the clockStatus it sets
\* and the title shown once locationCheckLoading is false again
DashboardLoadClockStatus(statusDoc, recs, t, docOk, queryOk, hasPermission, location, businessOk) ==
  LET status == DashboardClockStatus(
                  getUserClockStatus(statusDoc, recs, t, docOk, queryOk),
                  checkLocationForClockStatus(hasPermission, location, businessOk)) IN
  [clockStatus |-> status, text |-> DashboardStatusText(FALSE, status)]

\* ---- commission ----------------------------------------------------------
\* Amounts are whole QAR; a commission is counted in hundredths of a QAR, so
\* that the division by 100 leaves no fraction.

\* Number.MAX_SAFE_INTEGER, the maxQAR of an open-ended bracket: the largest
\* integer at hand stands for 2^53 - 1
MAX_SAFE_INTEGER == 2147483647

Min(a, b) == IF a <= b THEN a ELSE b
Max(a, b) == IF a >= b THEN a ELSE b

\* the loop of CommissionService.calculateCommission from bracket i on
RECURSIVE CommissionFrom(_, _, _)
CommissionFrom(remainingSales, brackets, i) ==
  IF i > Len(brackets) \/ remainingSales <= 0 THEN 0
  ELSE LET bracket == brackets[i]
           bracketRange == bracket.maxQAR - bracket.minQAR
           salesInBracket == Min(remainingSales, bracketRange) IN
       salesInBracket * bracket.ratePercent
         + (IF remainingSales - salesInBracket <= 0
               \/ bracket.maxQAR = MAX_SAFE_INTEGER
              THEN 0
              ELSE CommissionFrom(remainingSales - salesInBracket, brackets, i + 1))

\* CommissionService.calculateCommission, in hundredths
calculateCommission(sales, brackets) == CommissionFrom(sales, brackets, 1)

\* ---- evaluation of the functions ----------------------------------------
\* A function is applied once to arguments drawn from the sets below.

\* 09:00, 09:05 and 17:00 of a Sunday and of the Monday after it
At(day, hour, minute) == day * MinutesPerDay + hour * 60 + minute
HourInstants ==
  {At(day, 9, 0) : day \in {0, 1}} \cup {At(day, 9, 5) : day \in {0, 1}}
    \cup {At(day, 17, 0) : day \in {0, 1}}
HourRecords == [type : ClockTypes, timestamp : HourInstants]

\* the lists a query ordered by timestamp can return
ChronologicalLists ==
  UNION {{l \in [1..n -> HourRecords] :
            \A i \in 1..(n - 1) : l[i].timestamp <= l[i + 1].timestamp}
         : n \in 0..MaxEvents}

\* documents of clockRecords: of the staff member, in the last minute of the
\* week before, in the current week (days 7 to 13) and in the first minute of
\* the week after; and of a colleague
StoreInstants ==
  {At(6, 23, 59), At(7, 0, 0), At(7, 9, 0), At(7, 9, 5), At(7, 17, 0),
   At(13, 23, 59), At(14, 0, 0)}
StoreDocs ==
  [userId : {"staff"}, type : ClockTypes, timestamp : StoreInstants]
    \cup [userId : {"colleague"}, type : {"clock-in"},
          timestamp : {At(6, 23, 59), At(7, 9, 0)}]
Stores == UNION {[1..n -> StoreDocs] : n \in 0..MaxDocs}

\* new Date(): noon of each day of the current week, its first and last minute
CurrentWeek == {At(day, 12, 0) : day \in 7..13} \cup {At(7, 0, 0), At(13, 23, 59)}
WeeklyQueries ==
  [store : Stores, staffId : {"staff"}, now : CurrentWeek, queryOk : BOOLEAN]

\* coordinates in degrees: the poles, the equator and the four meridians a
\* quarter turn apart, and values beyond the range of a latitude (90) and of a
\* longitude (180)
Latitudes == {-180, -90, 0, 90, 180}
Longitudes == {-270, -180, -90, 0, 90, 180, 270}
CoordinatePairs ==
  [lat1 : Latitudes, lng1 : Longitudes, lat2 : Latitudes, lng2 : Longitudes]

\* the state getCurrentStatus reads: a last record of today or of an earlier
\* day, a position inside, at and beyond the radius or none
StatusInputs ==
  {i \in [lastClockRecord :
            {NoRecord} \cup [type : ClockTypes, timestamp : 0..MaxTime,
                             distanceFromBusiness : {0}],
          currentLocation :
            {NoLocation, BusinessPosition,
             BusinessPosition + DEFAULT_CLOCK_RADIUS_METERS - 1,
             BusinessPosition + DEFAULT_CLOCK_RADIUS_METERS,
             BusinessPosition + DEFAULT_CLOCK_RADIUS_METERS + 1},
          businessLocation : BOOLEAN,
          now : 0..MaxTime] :
     i.lastClockRecord.timestamp <= i.now}

\* what the dashboard reads: no record and no status document, or one record
\* of today with the status document its call wrote or failed to write
StoredStates ==
  {[clockRecords |-> << >>, userClockStatus |-> NoStatusDoc]}
    \cup {[clockRecords |-> <<NewClockRecord(type, 0, 0)>>, userClockStatus |-> d] :
            type \in ClockTypes, d \in {NoStatusDoc, [status |-> "clocked-in"],
                                        [status |-> "clocked-out"]}}
DashboardLoads ==
  {l \in [stored : StoredStates, now : 0..MaxTime, docOk : BOOLEAN, queryOk : BOOLEAN,
          hasPermission : BOOLEAN, location : Positions \cup {NoLocation},
          businessOk : BOOLEAN] :
     l.stored.userClockStatus # NoStatusDoc =>
       l.stored.userClockStatus.status
         = (IF l.stored.clockRecords[1].type = "clock-in"
              THEN "clocked-in" ELSE "clocked-out")}

\* brackets with ascending bounds, lists of them in which each bracket begins
\* where the one before it ends
RatePercents == {0, 5, 10}
CommissionBrackets ==
  {b \in [minQAR : 0..MaxSales, maxQAR : (1..MaxSales) \cup {MAX_SAFE_INTEGER},
          ratePercent : RatePercents] : b.minQAR < b.maxQAR}
Contiguous(brackets) ==
  \A i \in 1..(Len(brackets) - 1) : brackets[i + 1].minQAR = brackets[i].maxQAR
BracketLists ==
  UNION {{l \in [1..n -> CommissionBrackets] : Contiguous(l)} : n \in 0..MaxBrackets}
CommissionInputs == [sales : 0..MaxSales, brackets : BracketLists]

Returned(value) == [error |-> "none", value |-> value]

EvalInit ==
  /\ AttendanceInit
  /\ NotifyInit
  /\ SideInit
  /\ result = NoResult
  /\ \/ fn = "calculateWeeklyHours" /\ args \in ChronologicalLists
     \/ fn \in {"getWeeklyClockRecords", "DashboardWeeklyHours"}
          /\ args \in WeeklyQueries
     \/ fn = "calculateDistance" /\ args \in CoordinatePairs
     \/ fn = "getCurrentStatus" /\ args \in StatusInputs
     \/ fn = "DashboardLoadClockStatus" /\ args \in DashboardLoads
     \/ fn = "calculateCommission" /\ args \in CommissionInputs

EvalCalculateWeeklyHours ==
  /\ fn = "calculateWeeklyHours" /\ result = NoResult
  /\ result' = Returned(calculateWeeklyHours(args))
  /\ UNCHANGED <<fn, args, attendanceVars, notifyVars, sideVars>>

EvalGetWeeklyClockRecords ==
  /\ fn = "getWeeklyClockRecords" /\ result = NoResult
  /\ result' = Returned(getWeeklyClockRecords(args.store, args.staffId,
                                              args.now, args.queryOk))
  /\ UNCHANGED <<fn, args, attendanceVars, notifyVars, sideVars>>

EvalDashboardWeeklyHours ==
  /\ fn = "DashboardWeeklyHours" /\ result = NoResult
  /\ result' = Returned(DashboardWeeklyHours(args.store, args.staffId,
                                             args.now, args.queryOk))
  /\ UNCHANGED <<fn, args, attendanceVars, notifyVars, sideVars>>

EvalCalculateDistance ==
  /\ fn = "calculateDistance" /\ result = NoResult
  /\ result' = Returned(calculateDistanceLatLng(args.lat1, args.lng1,
                                                args.lat2, args.lng2))
  /\ UNCHANGED <<fn, args, attendanceVars, notifyVars, sideVars>>

EvalGetCurrentStatus ==
  /\ fn = "getCurrentStatus" /\ result = NoResult
  /\ result' = Returned(getCurrentStatus(args.lastClockRecord, args.currentLocation,
                                         args.businessLocation, args.now))
  /\ UNCHANGED <<fn, args, attendanceVars, notifyVars, sideVars>>

EvalDashboardLoadClockStatus ==
  /\ fn = "DashboardLoadClockStatus" /\ result = NoResult
  /\ result' = Returned(DashboardLoadClockStatus(
                  args.stored.userClockStatus, args.stored.clockRecords, args.now,
                  args.docOk, args.queryOk,
                  args.hasPermission, args.location, args.businessOk))
  /\ UNCHANGED <<fn, args, attendanceVars, notifyVars, sideVars>>

EvalCalculateCommission ==
  /\ fn = "calculateCommission" /\ result = NoResult
  /\ result' = Returned(calculateCommission(args.sales, args.brackets))
  /\ UNCHANGED <<fn, args, attendanceVars, notifyVars, sideVars>>

EvalNext ==
  \/ EvalCalculateWeeklyHours
  \/ EvalGetWeeklyClockRecords
  \/ EvalDashboardWeeklyHours
  \/ EvalCalculateDistance
  \/ EvalGetCurrentStatus
  \/ EvalDashboardLoadClockStatus
  \/ EvalCalculateCommission

EvalSpec == EvalInit /\ [][EvalNext]_vars

\* ---- the 'clockStatusChanged' notification --------------------------------
\* The success alert of a screen stays until its one button, Confirm, is
\* pressed; while an alert is showing no other button can be pressed.

\* eventEmitter.on / off with the callback of the dashboard's effect, a
\* closure over the user the effect ran with
on(emitter, callback) ==
  [created |-> TRUE, listeners |-> Append(emitter.listeners, callback)]
off(emitter, callback) ==
  IF emitter.created
    THEN [emitter EXCEPT !.listeners = SelectSeq(@, LAMBDA cb : cb # callback)]
    ELSE emitter
handleClockStatusChange(dash) == [user |-> dash.user]

\* an emit that no listener hears
emit_Unheard(emitter, dash) == dash

\* if (global.eventEmitter) global.eventEmitter.emit('clockStatusChanged'):
\* every listener is called; one whose closure holds the user starts
\* loadClockStatus, which sets locationCheckLoading.  The result is the
\* dashboard's state.
emit(emitter, dash) ==
  IF emitter.created
     /\ \E i \in 1..Len(emitter.listeners) : emitter.listeners[i].user
    THEN [dash EXCEPT !.locationCheckLoading = TRUE]
    ELSE dash

\* DashboardScreen mounts: its effects run with user = null; the listener
\* effect creates global.eventEmitter when there is none and registers
DashboardMount ==
  /\ ~dashboard.mounted
  /\ dashboard' = [Unmounted EXCEPT !.mounted = TRUE]
  /\ eventEmitter' = on(eventEmitter, handleClockStatusChange(Unmounted))
  /\ UNCHANGED <<alerts, attendanceVars, evalVars, sideVars>>

\* loadData finds the staff member: setUser; the effects on [user] run again:
\* loadClockStatus starts, the old listener is removed and a new one registered
DashboardLoadData ==
  /\ dashboard.mounted /\ ~dashboard.user
  /\ dashboard' = [dashboard EXCEPT !.user = TRUE, !.locationCheckLoading = TRUE]
  /\ eventEmitter' = on(off(eventEmitter, handleClockStatusChange(dashboard)),
                        handleClockStatusChange(dashboard'))
  /\ UNCHANGED <<alerts, attendanceVars, evalVars, sideVars>>

\* the loadClockStatus in flight ends: finally setLocationCheckLoading(false)
DashboardLoadEnds ==
  /\ dashboard.mounted /\ dashboard.user /\ dashboard.locationCheckLoading
  /\ dashboard' = [dashboard EXCEPT !.locationCheckLoading = FALSE]
  /\ UNCHANGED <<alerts, eventEmitter, attendanceVars, evalVars, sideVars>>

\* DashboardScreen unmounts: the effect's cleanup removes its listener
DashboardUnmount ==
  /\ dashboard.mounted
  /\ dashboard' = Unmounted
  /\ eventEmitter' = off(eventEmitter, handleClockStatusChange(dashboard))
  /\ UNCHANGED <<alerts, attendanceVars, evalVars, sideVars>>

NoAlert == \A s \in Screens : ~alerts[s]

\* a press on either screen, possible when no alert is showing
NotifyClockScreenPress ==
  /\ NoAlert
  /\ ClockScreenPress
  /\ Elsewhere

NotifyScheduleScreenPress ==
  /\ NoAlert
  /\ ScheduleScreenPress
  /\ Elsewhere

NotifyCheckMyLocation ==
  /\ NoAlert
  /\ CheckMyLocation
  /\ Elsewhere

\* the call of screen s returns: when it succeeded the screen shows its
\* success alert, otherwise an error alert with nothing behind it
ClockCallReturns(s) ==
  \E recordOk \in BOOLEAN, statusOk \in BOOLEAN :
    /\ ClockWrite(s, recordOk, statusOk)
    /\ alerts' = [alerts EXCEPT ![s] = @ \/ recordOk]
    /\ UNCHANGED <<eventEmitter, dashboard, evalVars, sideVars>>

NotifyClockCallReturns == \E s \in Screens : ClockCallReturns(s)

\* Confirm on the success alert of screen s: the screen reloads (loadClockData
\* on ClockInOutScreen, loadClockStatus on ScheduleScreen) and emits
Confirm(s) ==
  /\ alerts[s]
  /\ alerts' = [alerts EXCEPT ![s] = FALSE]
  /\ IF s = "clock" THEN loadClockData ELSE loadClockStatus
  /\ dashboard' = emit(eventEmitter, dashboard)
  /\ UNCHANGED <<eventEmitter, evalVars, sideVars>>

NotifyConfirm == \E s \in Screens : Confirm(s)

NotifyNext ==
  \/ DashboardMount
  \/ DashboardLoadData
  \/ DashboardLoadEnds
  \/ DashboardUnmount
  \/ NotifyClockScreenPress
  \/ NotifyScheduleScreenPress
  \/ NotifyCheckMyLocation
  \/ NotifyClockCallReturns
  \/ NotifyConfirm

NotifySpec == Init /\ [][NotifyNext]_vars

\* the alert has one button and nothing else can be done while it shows: it
\* is pressed in the end
NotifyFairSpec == NotifySpec /\ \A s \in Screens : WF_vars(Confirm(s))

\* ---- clockIn / clockOut with the CRM ---------------------------------------
StatusOf(type) == IF type = "clock-in" THEN "clocked-in" ELSE "clocked-out"

\* the CRM's documents as one value, with the error of the call so far
Crm == [crmUserStatus |-> crmUserStatus, crmSyncLogs |-> crmSyncLogs,
        realTimeUpdates |-> realTimeUpdates, error |-> "none"]

\* CRMSyncService.updateCRMUserStatus: setDoc, or its rejection
updateCRMUserStatus(crm, action, writeOk) ==
  IF writeOk
    THEN [crm EXCEPT !.crmUserStatus = [status |-> StatusOf(action)]]
    ELSE [crm EXCEPT !.error = "updateCRMUserStatus"]

\* CRMSyncService.logSyncAction: addDoc, or its rejection
logSyncAction(crm, action, writeOk) ==
  IF writeOk
    THEN [crm EXCEPT !.crmSyncLogs = Append(@, action)]
    ELSE [crm EXCEPT !.error = "logSyncAction"]

\* a sync that lets the error of its writes through
syncClockStatus_Rethrow(crm, action, crmOk, logOk) ==
  LET updated == updateCRMUserStatus(crm, action, crmOk) IN
  IF updated.error # "none" THEN updated ELSE logSyncAction(updated, action, logOk)

\* CRMSyncService.syncClockStatus: the status, then the log; an error of
\* either is caught and logged to the console
syncClockStatus(crm, action, crmOk, logOk) ==
  LET updated == updateCRMUserStatus(crm, action, crmOk)
      logged == IF updated.error # "none"
                  THEN updated ELSE logSyncAction(updated, action, logOk) IN
  [logged EXCEPT !.error = "none"]

\* CRMSyncService.broadcastStatusUpdate: an error is caught
broadcastStatusUpdate(crm, status, writeOk) ==
  IF writeOk THEN [crm EXCEPT !.realTimeUpdates = [status |-> status]] ELSE crm

\* the sync and the broadcast done whether or not the record was stored
AfterRecord_Regardless(crm, type, recordOk, crmOk, logOk, broadcastOk) ==
  LET synced == syncClockStatus(crm, type, crmOk, logOk)
      sent == broadcastStatusUpdate(synced, StatusOf(type), broadcastOk) IN
  IF recordOk THEN sent ELSE [sent EXCEPT !.error = "addDoc"]

\* clockIn / clockOut after addDoc: nothing when addDoc was rejected, else the
\* sync and, unless it threw, the broadcast
AfterRecord(crm, type, recordOk, crmOk, logOk, broadcastOk) ==
  IF ~recordOk THEN [crm EXCEPT !.error = "addDoc"]
  ELSE LET synced == syncClockStatus(crm, type, crmOk, logOk) IN
       IF synced.error # "none" THEN synced
       ELSE broadcastStatusUpdate(synced, StatusOf(type), broadcastOk)

NotCrm == UNCHANGED <<evalVars, notifyVars, flagVars, loadVars, authVars>>
CrmUnchanged == UNCHANGED <<crmUserStatus, crmSyncLogs, realTimeUpdates>>

\* the call of screen s from its writes to its settlement
ClockCall(s, recordOk, statusOk, crmOk, logOk, broadcastOk) ==
  /\ calls[s].pc = "located"
  /\ LET after == AfterRecord(Crm, calls[s].type, recordOk, crmOk, logOk, broadcastOk) IN
     /\ crmUserStatus' = after.crmUserStatus
     /\ crmSyncLogs' = after.crmSyncLogs
     /\ realTimeUpdates' = after.realTimeUpdates
     /\ outcomes' = [outcomes EXCEPT ![s] =
                       IF after.error = "none" THEN "resolved" ELSE "rejected"]
     /\ ClockWrite(s, recordOk, statusOk)
  /\ NotCrm

ClockCallSettles ==
  \E s \in Screens, recordOk, statusOk, crmOk, logOk, broadcastOk \in BOOLEAN :
     ClockCall(s, recordOk, statusOk, crmOk, logOk, broadcastOk)

\* a press: the call is in flight once it has its position and the business,
\* and is rejected when one of them fails
Started(s) ==
  outcomes' = [outcomes EXCEPT ![s] =
                 IF calls'[s].pc = "located" THEN "pending" ELSE "rejected"]

CrmClockScreenPress ==
  /\ ClockScreenPress
  /\ Started("clock")
  /\ CrmUnchanged
  /\ NotCrm

CrmScheduleScreenPress ==
  /\ ScheduleScreenPress
  /\ Started("schedule")
  /\ CrmUnchanged
  /\ NotCrm

CrmNext ==
  \/ CrmClockScreenPress
  \/ CrmScheduleScreenPress
  \/ ClockCallSettles
  \/ CheckMyLocation /\ Elsewhere
  \/ loadClockStatus /\ Elsewhere

CrmSpec == Init /\ [][CrmNext]_vars

\* ---- DashboardScreen.loadClockStatus, await by await ------------------------
NotLoads == UNCHANGED <<attendanceVars, evalVars, notifyVars, flagVars, crmVars, authVars>>

InFlightLoads == {dashLoads[i].id : i \in 1..Len(dashLoads)}
LoadAt(id) == CHOOSE i \in 1..Len(dashLoads) : dashLoads[i].id = id
WithoutLoad(id) == SelectSeq(dashLoads, LAMBDA load : load.id # id)

\* loadClockStatus is called: setLocationCheckLoading(true), and the read of
\* the status is awaited
StartLoad(d) ==
  /\ dashLoadsStarted < MaxLoads
  /\ dashScreen' = [d EXCEPT !.locationCheckLoading = TRUE]
  /\ dashLoads' = Append(dashLoads, [id |-> dashLoadsStarted + 1, pc |-> "status",
                                     status |-> "none"])
  /\ dashLoadsStarted' = dashLoadsStarted + 1

\* loadData sets the user, whose effect calls loadClockStatus
DashLoadData ==
  /\ ~dashScreen.user
  /\ StartLoad([dashScreen EXCEPT !.user = TRUE])
  /\ NotLoads

\* the 30-second poll, the focus event or 'clockStatusChanged' calls
\* loadClockStatus
DashLoadStarts ==
  /\ dashScreen.user
  /\ StartLoad(dashScreen)
  /\ NotLoads

\* getUserClockStatus returns to the load
DashLoadReadsStatus(id, docOk, queryOk) ==
  /\ id \in InFlightLoads
  /\ dashLoads[LoadAt(id)].pc = "status"
  /\ dashLoads' = [dashLoads EXCEPT ![LoadAt(id)] =
                     [@ EXCEPT !.pc = "location",
                               !.status = getUserClockStatus(userClockStatus,
                                             clockRecords, now, docOk, queryOk)]]
  /\ UNCHANGED <<dashScreen, dashLoadsStarted>>
  /\ NotLoads

DashLoadReads ==
  \E id \in 1..MaxLoads, docOk, queryOk \in BOOLEAN : DashLoadReadsStatus(id, docOk, queryOk)

\* checkLocationForClockStatus returns to the load: setClockStatus, and
\* finally setLocationCheckLoading(false)
DashLoadFinishes(id, hasPermission, location, businessOk) ==
  /\ id \in InFlightLoads
  /\ dashLoads[LoadAt(id)].pc = "location"
  /\ dashScreen' = [dashScreen EXCEPT
                !.clockStatus =
                   DashboardClockStatus(dashLoads[LoadAt(id)].status,
                      checkLocationForClockStatus(hasPermission, location, businessOk)),
                !.locationCheckLoading = FALSE]
  /\ dashLoads' = WithoutLoad(id)
  /\ UNCHANGED dashLoadsStarted
  /\ NotLoads

DashLoadEnds ==
  \E id \in 1..MaxLoads, hasPermission, businessOk \in BOOLEAN :
    \E location \in Positions \cup {NoLocation} :
       DashLoadFinishes(id, hasPermission, location, businessOk)

LoadNext ==
  \/ DashLoadData
  \/ DashLoadStarts
  \/ DashLoadReads
  \/ DashLoadEnds
  \/ CheckMyLocation /\ Elsewhere
  \/ ScheduleScreenPress /\ Elsewhere
  \/ ClockWriteStep /\ Elsewhere

LoadSpec == Init /\ [][LoadNext]_vars

\* ---- AuthContext and AuthService --------------------------------------------
NotAuth == UNCHANGED <<attendanceVars, notifyVars, flagVars, crmVars, loadVars>>

\* the state the calls work on, as one value
Auth ==
  [user |-> authContext.user, loading |-> authContext.loading,
   initialized |-> authContext.initialized, listening |-> authContext.listening,
   timer |-> authContext.timer, staff |-> asyncStorage,
   currentUser |-> firebaseAuth.currentUser, changed |-> firebaseAuth.changed]

SetAuth(a) ==
  /\ authContext' = [user |-> a.user, loading |-> a.loading,
                     initialized |-> a.initialized, listening |-> a.listening,
                     timer |-> a.timer]
  /\ asyncStorage' = a.staff
  /\ firebaseAuth' = [currentUser |-> a.currentUser, changed |-> a.changed]

\* auth.currentUser becomes signedIn; a change is told to the listener later
SetCurrentUser(a, signedIn) ==
  [a EXCEPT !.currentUser = signedIn,
            !.changed = @ \/ (a.listening /\ a.currentUser # signedIn)]

\* AsyncStorage.removeItem('staff'), or its rejection
removeItem(a, removeOk) == IF removeOk THEN [a EXCEPT !.staff = FALSE] ELSE a

\* AuthService.signOut: the item is removed, then Firebase signs out (its
\* failure is ignored); a rejected removal is retried once and rethrown
AuthService_signOut(a, removeOk, retryOk, firebaseOk) ==
  IF removeOk
    THEN [error |-> "none",
          state |-> IF a.currentUser /\ firebaseOk
                      THEN SetCurrentUser(removeItem(a, TRUE), FALSE)
                      ELSE removeItem(a, TRUE)]
    ELSE [error |-> "Logout failed", state |-> removeItem(a, retryOk)]

\* AuthContext.signOut
signOut(a, removeOk, retryOk, serviceRemoveOk, serviceRetryOk, firebaseOk) ==
  LET cleared == [a EXCEPT !.loading = TRUE, !.user = FALSE]
      tried == IF removeOk
                 THEN AuthService_signOut(removeItem(cleared, TRUE), serviceRemoveOk,
                                          serviceRetryOk, firebaseOk).state
                 ELSE removeItem(cleared, retryOk) IN
  [error |-> "none", state |-> [tried EXCEPT !.loading = FALSE]]

\* AuthService.signIn: Firebase authentication, the staff lookup, the cache
AuthService_signIn(a, authOk, staffFound, storeOk) ==
  IF ~authOk THEN [error |-> "Login failed. Please try again.", state |-> a]
  ELSE IF ~staffFound
    THEN [error |-> "Staff record not found. Please contact your administrator.",
          state |-> SetCurrentUser(a, TRUE)]
  ELSE IF ~storeOk
    THEN [error |-> "Login failed. Please try again.",
          state |-> SetCurrentUser(a, TRUE)]
  ELSE [error |-> "none",
        state |-> [SetCurrentUser(a, TRUE) EXCEPT !.staff = TRUE]]

\* AuthContext.signIn: on success the user is set and a timer will set
\* loading false; on failure loading is set false and the error rethrown
signIn(a, authOk, staffFound, storeOk) ==
  LET called == AuthService_signIn([a EXCEPT !.loading = TRUE], authOk, staffFound, storeOk) IN
  IF called.error = "none"
    THEN [error |-> "none", state |-> [called.state EXCEPT !.user = TRUE, !.timer = TRUE]]
    ELSE [error |-> called.error, state |-> [called.state EXCEPT !.loading = FALSE]]

\* initializeAuth: the cached user, else the auth state listener, which is
\* called at once with the current state; a failing read leaves no user
initializeAuth(a, readOk) ==
  IF ~readOk THEN [a EXCEPT !.initialized = TRUE, !.user = FALSE, !.loading = FALSE]
  ELSE IF a.staff
    THEN [a EXCEPT !.initialized = TRUE, !.user = TRUE, !.loading = FALSE]
  ELSE [a EXCEPT !.initialized = TRUE, !.listening = TRUE, !.changed = TRUE]

AuthInitialize ==
  /\ ~authContext.initialized
  /\ \E readOk \in BOOLEAN : SetAuth(initializeAuth(Auth, readOk))
  /\ UNCHANGED evalVars
  /\ NotAuth

\* the listener of AuthService.onAuthStateChanged is called: getCurrentUser
\* gives the cached staff, else looks the staff up and signs out without one
AuthStateChanged ==
  /\ authContext.listening
  /\ firebaseAuth.changed
  /\ \E staffFound \in BOOLEAN :
       LET a == [Auth EXCEPT !.changed = FALSE, !.loading = FALSE] IN
       SetAuth(IF ~a.currentUser THEN [a EXCEPT !.user = FALSE]
               ELSE IF a.staff THEN [a EXCEPT !.user = TRUE]
               ELSE IF staffFound THEN [a EXCEPT !.user = TRUE, !.staff = TRUE]
               ELSE [a EXCEPT !.user = FALSE, !.currentUser = FALSE])
  /\ UNCHANGED evalVars
  /\ NotAuth

\* the timer of signIn fires: setLoading(false)
AuthTimerFires ==
  /\ authContext.timer
  /\ authContext' = [authContext EXCEPT !.timer = FALSE, !.loading = FALSE]
  /\ UNCHANGED <<asyncStorage, firebaseAuth, evalVars>>
  /\ NotAuth

\* the app is closed and opened again: the provider starts anew, the cache
\* and the Firebase session are kept
AppRestarts ==
  /\ authContext.initialized
  /\ authContext' = AuthProviderInitial
  /\ firebaseAuth' = [firebaseAuth EXCEPT !.changed = FALSE]
  /\ UNCHANGED <<asyncStorage, evalVars>>
  /\ NotAuth

\* a call of signIn from the login screen, shown while there is no user
CallSignIn ==
  /\ authContext.initialized
  /\ ~authContext.user
  /\ \E authOk, staffFound, storeOk \in BOOLEAN :
       LET called == signIn(Auth, authOk, staffFound, storeOk) IN
       /\ SetAuth(called.state)
       /\ args' = [before |-> Auth, authOk |-> authOk, staffFound |-> staffFound,
                   storeOk |-> storeOk]
       /\ result' = [error |-> called.error, value |-> 0]
  /\ fn' = "signIn"
  /\ NotAuth

\* a call of signOut from MoreScreen
CallSignOut ==
  /\ authContext.initialized
  /\ authContext.user
  /\ \E removeOk, retryOk, serviceRemoveOk, serviceRetryOk, firebaseOk \in BOOLEAN :
       LET called == signOut(Auth, removeOk, retryOk, serviceRemoveOk,
                             serviceRetryOk, firebaseOk) IN
       /\ SetAuth(called.state)
       /\ args' = [before |-> Auth, removeOk |-> removeOk, retryOk |-> retryOk,
                   serviceRemoveOk |-> serviceRemoveOk,
                   serviceRetryOk |-> serviceRetryOk, firebaseOk |-> firebaseOk]
       /\ result' = [error |-> called.error, value |-> 0]
  /\ fn' = "signOut"
  /\ NotAuth

AuthNext ==
  \/ AuthInitialize
  \/ AuthStateChanged
  \/ AuthTimerFires
  \/ AppRestarts
  \/ CallSignIn
  \/ CallSignOut

AuthSpec == Init /\ [][AuthNext]_vars

\* ---- the feature flags provider ----------------------------------------------
NotFlags == UNCHANGED <<attendanceVars, notifyVars, crmVars, loadVars, authVars>>

\* FeatureFlagsProvider.setupFeatureFlagsListener, called from a render whose
\* unsubscribe state is p.unsubscribe; onSnapshot subscribes or throws
setupFeatureFlagsListener(p, subscribeOk) ==
  LET newUnsubscribe == p.created + 1 IN
  /\ p.created < MaxListeners
  /\ IF subscribeOk
       THEN /\ subscriptions' = (subscriptions \ {p.unsubscribe}) \cup {newUnsubscribe}
            /\ provider' = [p EXCEPT !.loading = TRUE, !.error = FALSE,
                                     !.unsubscribe = newUnsubscribe,
                                     !.created = newUnsubscribe]
       ELSE /\ subscriptions' = subscriptions \ {p.unsubscribe}
            /\ provider' = [p EXCEPT !.loading = FALSE, !.error = TRUE,
                                     !.flags = DEFAULT_FEATURE_FLAGS,
                                     !.usingDefaults = TRUE]

\* the effect on [user?.businessId]: its body, and the closure that its
\* cleanup keeps (the unsubscribe of the render the effect ran in)
useEffect(p, subscribeOk) ==
  LET rendered == [p EXCEPT !.cleanup = p.unsubscribe] IN
  IF rendered.businessId
    THEN setupFeatureFlagsListener(rendered, subscribeOk)
    ELSE /\ provider' = [rendered EXCEPT !.flags = DEFAULT_FEATURE_FLAGS,
                                         !.usingDefaults = TRUE,
                                         !.loading = FALSE, !.error = FALSE]
         /\ UNCHANGED subscriptions

\* the provider mounts, with or without a logged-in user
ProviderMount ==
  /\ ~provider.mounted
  /\ \E businessId, subscribeOk \in BOOLEAN :
       useEffect([provider EXCEPT !.mounted = TRUE, !.businessId = businessId],
                 subscribeOk)
  /\ UNCHANGED <<flagsDoc, evalVars>>
  /\ NotFlags

\* the user logs in or out: the cleanup of the last effect runs, with the
\* unsubscribe of its own closure, and then the effect runs again
BusinessChange ==
  /\ provider.mounted
  /\ \E subscribeOk \in BOOLEAN :
       LET cleaned == subscriptions \ {provider.cleanup}
           p == [provider EXCEPT !.businessId = ~provider.businessId,
                                 !.cleanup = provider.unsubscribe] IN
       IF p.businessId
         THEN /\ p.created < MaxListeners
              /\ subscriptions' =
                   IF subscribeOk
                     THEN (cleaned \ {p.unsubscribe}) \cup {p.created + 1}
                     ELSE cleaned \ {p.unsubscribe}
              /\ provider' =
                   IF subscribeOk
                     THEN [p EXCEPT !.loading = TRUE, !.error = FALSE,
                                    !.unsubscribe = p.created + 1,
                                    !.created = p.created + 1]
                     ELSE [p EXCEPT !.loading = FALSE, !.error = TRUE,
                                    !.flags = DEFAULT_FEATURE_FLAGS,
                                    !.usingDefaults = TRUE]
         ELSE /\ subscriptions' = cleaned
              /\ provider' = [p EXCEPT !.flags = DEFAULT_FEATURE_FLAGS,
                                       !.usingDefaults = TRUE,
                                       !.loading = FALSE, !.error = FALSE]
  /\ UNCHANGED <<flagsDoc, evalVars>>
  /\ NotFlags

\* FeatureFlagsProvider.refresh
refresh ==
  /\ provider.mounted
  /\ provider.businessId
  /\ \E subscribeOk \in BOOLEAN : setupFeatureFlagsListener(provider, subscribeOk)
  /\ UNCHANGED <<flagsDoc, evalVars>>
  /\ NotFlags

\* the provider unmounts: the cleanup of the last effect runs
ProviderUnmount ==
  /\ provider.mounted
  /\ subscriptions' = subscriptions \ {provider.cleanup}
  /\ provider' = [ProviderInitial EXCEPT !.created = provider.created]
  /\ UNCHANGED <<flagsDoc, evalVars>>
  /\ NotFlags

\* a subscribed listener is called, with the document or with an error
onSnapshot(listener, readOk) ==
  /\ listener \in subscriptions
  /\ provider.mounted
  /\ provider' =
       IF ~readOk
         THEN [provider EXCEPT !.error = TRUE, !.flags = DEFAULT_FEATURE_FLAGS,
                               !.usingDefaults = TRUE, !.loading = FALSE]
       ELSE IF flagsDoc.exists
         THEN [provider EXCEPT !.flags = Spread(DEFAULT_FEATURE_FLAGS, flagsDoc.flags),
                               !.usingDefaults = FALSE, !.error = FALSE,
                               !.loading = FALSE]
       ELSE [provider EXCEPT !.flags = DEFAULT_FEATURE_FLAGS,
                             !.usingDefaults = TRUE, !.error = FALSE,
                             !.loading = FALSE]
  /\ UNCHANGED <<flagsDoc, subscriptions, evalVars>>
  /\ NotFlags

SnapshotDelivered == \E listener \in 1..MaxListeners, readOk \in BOOLEAN : onSnapshot(listener, readOk)

\* FeatureFlagsService.createFeatureFlags: setDoc of the defaults and initialFlags
createFeatureFlags ==
  /\ \E initialFlags \in PartialFlags :
       flagsDoc' = StoredFlags(Spread(DEFAULT_FEATURE_FLAGS, initialFlags))
  /\ UNCHANGED <<provider, subscriptions, evalVars>>
  /\ NotFlags

\* FeatureFlagsService.updateFeatureFlags: updateDoc, rejected without a document
updateFeatureFlags ==
  /\ flagsDoc.exists
  /\ \E updates \in PartialFlags :
       flagsDoc' = StoredFlags(Spread(flagsDoc.flags, updates))
  /\ UNCHANGED <<provider, subscriptions, evalVars>>
  /\ NotFlags

\* the administrator writes the document in the console, or deletes it
ConsoleWrite ==
  /\ \E document \in {NoFlagsDoc} \cup {StoredFlags(flags) : flags \in PartialFlags} :
       flagsDoc' = document
  /\ UNCHANGED <<provider, subscriptions, evalVars>>
  /\ NotFlags

\* a call of FeatureFlagsService.getFeatureFlagsWithFallback
GetFeatureFlagsWithFallback ==
  /\ \E readOk \in BOOLEAN :
       /\ args' = [readOk |-> readOk]
       /\ result' = getFeatureFlagsWithFallback(flagsDoc, readOk)
  /\ fn' = "getFeatureFlagsWithFallback"
  /\ UNCHANGED flagVars
  /\ NotFlags

FlagsNext ==
  \/ ProviderMount
  \/ BusinessChange
  \/ refresh
  \/ ProviderUnmount
  \/ SnapshotDelivered
  \/ createFeatureFlags
  \/ updateFeatureFlags
  \/ ConsoleWrite
  \/ GetFeatureFlagsWithFallback

FlagsSpec == Init /\ [][FlagsNext]_vars

\* ---- properties ----------------------------------------------------------

\* the call of screen s completes in this step
Completes(s) == calls[s].pc = "located" /\ calls'[s].pc = "idle"

TooFar(distance) == isOutsideRange(distance, DEFAULT_CLOCK_RADIUS_METERS)

LastStored == getLastClockRecord(clockRecords, TRUE)

SameDay(record, t) == toDateString(record.timestamp) = toDateString(t)

\* the status texts of getCurrentStatus that say "clocked out"
ClockedOutStatuses ==
  {"Not clocked in", "Not clocked in today", "Clocked out", "Outside work area"}

\* C1: a clockIn / clockOut that is not the allowed action when its record
\* would be written (clockIn after a clock-in of today, clockOut with no
\* record or after a clock-out) fails and appends no clock record.
C1_IllegalActionAppendsNothing ==
  [][\A s \in Screens :
        (Completes(s) /\ IllegalTransition(calls[s].type, clockRecords, now))
           => clockRecords' = clockRecords]_vars

\* C2: with distance enforcement on, a clockIn / clockOut attempted from
\* farther than the allowed radius fails and writes no clock record.
C2_FarAttemptAppendsNothing ==
  [][\A s \in Screens :
        (Completes(s) /\ enforceClockDistance /\ TooFar(calls[s].distance))
           => clockRecords' = clockRecords]_vars

\* C3: with no last record or a clock-out as last record (and the position
\* known), the clock screen derives a clocked-out status and allows ClockIn
\* exactly when the position is within the radius or enforcement is off;
\* otherwise it allows nothing.
C3_ClockedOutAllowsClockInIfNear ==
  (/\ (lastClockRecord = NoRecord \/ lastClockRecord.type = "clock-out")
   /\ currentLocation # NoLocation /\ businessLocation)
  => /\ currentStatus.status \in ClockedOutStatuses
     /\ ClockScreenButton(currentStatus) =
          IF \/ ~TooFar(calculateDistance(currentLocation, BusinessPosition))
             \/ ~enforceClockDistance
            THEN "clock-in" ELSE "none"

\* C4: when the last stored record is a clock-in of an earlier calendar day,
\* getCurrentStatus (given that record, at any position) allows ClockIn and
\* getUserClockStatus reports clocked-out.
C4_StaleClockInIsClockedOut ==
  (LastStored.type = "clock-in" /\ ~SameDay(LastStored, now))
  => /\ \A location \in Positions \cup {NoLocation} :
          LET st == getCurrentStatus(LastStored, location, TRUE, now) IN
            st.status \in ClockedOutStatuses /\ ClockScreenButton(st) = "clock-in"
     /\ getUserClockStatus(userClockStatus, clockRecords, now, TRUE, TRUE)
          = "clocked-out"

\* C5: with a clock-in of the same day as last record and the position within
\* the radius or enforcement off, the clock screen derives "clocked in" and
\* allows ClockOut.
C5_ClockedInAllowsClockOut ==
  (/\ lastClockRecord.type = "clock-in" /\ SameDay(lastClockRecord, now)
   /\ currentLocation # NoLocation /\ businessLocation
   /\ (\/ ~TooFar(calculateDistance(currentLocation, BusinessPosition))
       \/ ~enforceClockDistance))
  => /\ currentStatus.status = "Currently clocked in"
     /\ ClockScreenButton(currentStatus) = "clock-out"

\* C6: with a clock-in of the same day as last record, the position outside
\* the radius and enforcement on, the status is "clocked in, out of range" and
\* no action is allowed, on the clock screen and on the schedule screen.
C6_OutOfRangeAllowsNothing ==
  /\ (/\ lastClockRecord.type = "clock-in" /\ SameDay(lastClockRecord, now)
      /\ currentLocation # NoLocation /\ businessLocation
      /\ TooFar(calculateDistance(currentLocation, BusinessPosition))
      /\ enforceClockDistance)
     => /\ currentStatus.status = "Clocked in (from workplace)"
        /\ ClockScreenButton(currentStatus) = "none"
  /\ (/\ LastStored.type = "clock-in" /\ SameDay(LastStored, now)
      /\ userLocation # NoLocation
      /\ TooFar(calculateDistance(userLocation, BusinessPosition))
      /\ enforceClockDistance)
     => ScheduleScreenButtons(isWithinRange, clockStatus) = {}

\* C7: the status getUserClockStatus returns is the one the stored records
\* alone give (the status returned when there is no status document), so
\* that two stores with the same last record report the same status.
C7_StatusIsFunctionOfLastRecord ==
  getUserClockStatus(userClockStatus, clockRecords, now, TRUE, TRUE)
    = getUserClockStatus(NoStatusDoc, clockRecords, now, TRUE, TRUE)

\* C8: while the most recently written record is a clock-in of today (a
\* clockIn succeeded and no clock action followed), getUserClockStatus
\* reports clocked-in.
C8_ClockedInAfterClockIn ==
  (/\ Len(clockRecords) > 0
   /\ clockRecords[Len(clockRecords)].type = "clock-in"
   /\ SameDay(clockRecords[Len(clockRecords)], now))
  => getUserClockStatus(userClockStatus, clockRecords, now, TRUE, TRUE)
       = "clocked-in"

\* C9: every step leaves the stored records as they are or appends exactly one
\* record, that of a clockIn / clockOut completing in the step, of that
\* call's type; the records stored before are unchanged.
C9_RecordsAppendOnly ==
  [][clockRecords' # clockRecords =>
       /\ Len(clockRecords') = Len(clockRecords) + 1
       /\ SubSeq(clockRecords', 1, Len(clockRecords)) = clockRecords
       /\ \E s \in Screens :
            /\ Completes(s)
            /\ clockRecords'[Len(clockRecords')].type = calls[s].type]_vars

\* a second record was appended behind a first one
C9_Witness ==
  /\ Len(clockRecords) = 2
  /\ clockRecords[1].type # clockRecords[2].type

Evaluated(f) == fn = f /\ result.error # "pending"

Remove(list, k) == SubSeq(list, 1, k - 1) \o SubSeq(list, k + 1, Len(list))

\* the open-pointer pairing over a chronological list: after a clock-out the
\* pointer is closed, so a clock-out closes a session exactly when the record
\* before it is a clock-in
RECURSIVE OpenPointerTotalUpTo(_, _)
OpenPointerTotalUpTo(list, j) ==
  IF j < 2 THEN 0
  ELSE OpenPointerTotalUpTo(list, j - 1)
       + (IF list[j].type = "clock-out" /\ list[j - 1].type = "clock-in"
            THEN list[j].timestamp - list[j - 1].timestamp ELSE 0)
OpenPointerTotal(list) == OpenPointerTotalUpTo(list, Len(list))

\* C11: for every chronologically ordered list of records of the week,
\* calculateWeeklyHours equals the total of the open-pointer pairing, also
\* when a clock-in and its clock-out fall on different days; the pair
\* 09:00-17:00 yields 8 hours
C11_EqualsOpenPointerPairing ==
  Evaluated("calculateWeeklyHours") =>
    /\ result.value = OpenPointerTotal(args)
    /\ (args = <<[type |-> "clock-in", timestamp |-> At(0, 9, 0)],
                 [type |-> "clock-out", timestamp |-> At(0, 17, 0)]>>
          => result.value = 8 * 60)

\* C12: a clock-in followed by another clock-in before any clock-out is
\* discarded (the total is what it is without it); 09:00, 09:05, 17:00
\* counts 7 h 55 min
C12_EarlierClockInDiscarded ==
  Evaluated("calculateWeeklyHours") =>
    /\ \A k \in 1..(Len(args) - 1) :
         (args[k].type = "clock-in" /\ args[k + 1].type = "clock-in")
           => result.value = calculateWeeklyHours(Remove(args, k))
    /\ (args = <<[type |-> "clock-in", timestamp |-> At(0, 9, 0)],
                 [type |-> "clock-in", timestamp |-> At(0, 9, 5)],
                 [type |-> "clock-out", timestamp |-> At(0, 17, 0)]>>
          => result.value = 7 * 60 + 55)

C12_Witness ==
  /\ Evaluated("calculateWeeklyHours")
  /\ args = <<[type |-> "clock-in", timestamp |-> At(0, 9, 0)],
              [type |-> "clock-in", timestamp |-> At(0, 9, 5)],
              [type |-> "clock-out", timestamp |-> At(0, 17, 0)]>>
  /\ result.value = 7 * 60 + 55

\* C13: a clock-in with no later clock-out and a clock-out with no open
\* clock-in before it contribute nothing (the total is what it is without
\* them), and no time beyond the last record is counted
C13_UnpairedRecordsCountNothing ==
  Evaluated("calculateWeeklyHours") =>
    /\ \A k \in 1..Len(args) :
         (/\ args[k].type = "clock-in"
          /\ \A j \in (k + 1)..Len(args) : args[j].type # "clock-out")
           => result.value = calculateWeeklyHours(Remove(args, k))
    /\ \A k \in 1..Len(args) :
         (/\ args[k].type = "clock-out"
          /\ (k = 1 \/ args[k - 1].type = "clock-out"))
           => result.value = calculateWeeklyHours(Remove(args, k))
    /\ result.value <= (IF Len(args) = 0 THEN 0
                        ELSE args[Len(args)].timestamp - args[1].timestamp)

C13_Witness ==
  /\ Evaluated("calculateWeeklyHours")
  /\ args = <<[type |-> "clock-in", timestamp |-> At(0, 9, 0)],
              [type |-> "clock-out", timestamp |-> At(0, 17, 0)],
              [type |-> "clock-in", timestamp |-> At(1, 9, 0)]>>
  /\ result.value = 8 * 60

\* the calendar week of a timestamp, Sunday 00:00 to Saturday 23:59
WeekOf(t) == t \div (7 * MinutesPerDay)
InWeekOfStaff(doc, staffId, t) ==
  doc.userId = staffId /\ WeekOf(doc.timestamp) = WeekOf(t)

\* C14: on every day of the week, the records a successful query returns for
\* the weekly total are exactly the staff member's records of the current
\* week, Sunday 00:00 to Saturday 23:59, in ascending order of timestamp
C14_ExactlyThisWeeksRecords ==
  (Evaluated("getWeeklyClockRecords") /\ args.queryOk) =>
    LET list == result.value
        store == args.store
        wanted == {i \in 1..Len(store) :
                     InWeekOfStaff(store[i], args.staffId, args.now)} IN
    /\ Len(list) = Cardinality(wanted)
    /\ \A k \in 1..Len(list) : InWeekOfStaff(list[k], args.staffId, args.now)
    /\ \A i \in wanted : \E k \in 1..Len(list) : list[k] = store[i]
    /\ \A k \in 1..(Len(list) - 1) : list[k].timestamp <= list[k + 1].timestamp

C14_Witness ==
  /\ Evaluated("getWeeklyClockRecords") /\ args.queryOk
  /\ args.now = At(10, 12, 0)
  /\ args.store = <<[userId |-> "staff", type |-> "clock-out",
                     timestamp |-> At(13, 23, 59)],
                    [userId |-> "staff", type |-> "clock-in",
                     timestamp |-> At(6, 23, 59)]>>
  /\ result.value = <<args.store[1]>>

\* C15: the weekly hours shown are not negative and are the tenth of an hour
\* nearest to the total; when the query fails they are 0
C15_WeeklyHoursRounded ==
  Evaluated("DashboardWeeklyHours") =>
    LET minutes == calculateWeeklyHours(
                     getWeeklyClockRecords(args.store, args.staffId,
                                           args.now, args.queryOk)) IN
    /\ result.value >= 0
    /\ 6 * result.value - minutes \in -3..3
    /\ (~args.queryOk => result.value = 0)

C15_Witness ==
  /\ Evaluated("DashboardWeeklyHours")
  /\ args.store = <<[userId |-> "staff", type |-> "clock-in",
                     timestamp |-> At(7, 9, 5)],
                    [userId |-> "staff", type |-> "clock-out",
                     timestamp |-> At(7, 17, 0)]>>
  /\ result.value = 79

\* ---- properties of the distance -------------------------------------------
Radii == {0, 1, DEFAULT_CLOCK_RADIUS_METERS}

\* C16: the distance from a coordinate to itself is 0 and is within every
\* radius from 0 on; no distance is negative
C16_ZeroToItselfNeverNegative ==
  Evaluated("calculateDistance") =>
    /\ result.value >= 0
    /\ (args.lat1 = args.lat2 /\ args.lng1 = args.lng2) =>
         /\ result.value = 0
         /\ \A radius \in Radii : ~isOutsideRange(result.value, radius)

C16_Witness ==
  /\ Evaluated("calculateDistance")
  /\ args.lat1 = 90 /\ args.lat2 = 90 /\ args.lng1 = -90 /\ args.lng2 = -90
  /\ result.value = 0

\* C17: the radius test is inclusive: at a distance equal to the radius the
\* position is within range, and out of range is a distance strictly greater
C17_RadiusInclusive ==
  (/\ Evaluated("getCurrentStatus")
   /\ args.lastClockRecord # NoRecord
   /\ toDateString(args.lastClockRecord.timestamp) = toDateString(args.now)
   /\ args.currentLocation # NoLocation /\ args.businessLocation) =>
    LET distance == calculateDistance(args.currentLocation, BusinessPosition) IN
    /\ result.value.isOutsideRange <=> distance > DEFAULT_CLOCK_RADIUS_METERS
    /\ distance = DEFAULT_CLOCK_RADIUS_METERS => ~result.value.isOutsideRange

C17_Witness ==
  /\ Evaluated("getCurrentStatus")
  /\ args.lastClockRecord.type = "clock-in"
  /\ args.businessLocation
  /\ calculateDistance(args.currentLocation, BusinessPosition)
       = DEFAULT_CLOCK_RADIUS_METERS
  /\ result.value.status = "Currently clocked in"

\* a latitude within [-90, 90] and a longitude within [-180, 180]
ValidCoordinate(lat, lng) ==
  lat >= -90 /\ lat <= 90 /\ lng >= -180 /\ lng <= 180

\* C18: for a latitude or a longitude out of its range the distance
\* computation fails with InvalidCoordinate and returns no distance
C18_InvalidCoordinateRejected ==
  (/\ Evaluated("calculateDistance")
   /\ \/ ~ValidCoordinate(args.lat1, args.lng1)
      \/ ~ValidCoordinate(args.lat2, args.lng2)) =>
    result.error = "InvalidCoordinate"

\* ---- properties of the dashboard ------------------------------------------

\* C19: when the position cannot be obtained (permission refused or the
\* location fails) the dashboard does not present the staff member as
\* clocked out
C19_NoPositionIsNotClockedOut ==
  (/\ Evaluated("DashboardLoadClockStatus")
   /\ (~args.hasPermission \/ args.location = NoLocation)) =>
    result.value.text # "Currently clocked out"

\* the position of a dashboard load is known and outside the radius
LoadedOutsideRadius ==
  /\ args.hasPermission
  /\ args.location # NoLocation
  /\ args.businessOk
  /\ TooFar(calculateDistance(args.location, BusinessPosition))

\* C22: the dashboard shows 'Currently clocked in' only when the records say
\* clocked in and the position is within the radius of the business; a
\* clocked-in user outside the radius is shown 'Clocked in (Outside work area)'
C22_ClockedInOnlyWithinRadius ==
  Evaluated("DashboardLoadClockStatus") =>
    /\ result.value.text = "Currently clocked in" =>
         /\ result.value.clockStatus.actualStatus = "clocked-in"
         /\ ~LoadedOutsideRadius
    /\ (result.value.clockStatus.actualStatus = "clocked-in" /\ LoadedOutsideRadius) =>
         result.value.text = "Clocked in (Outside work area)"

\* ---- properties of the notification ----------------------------------------
Confirmed(s) == alerts[s] /\ ~alerts'[s]
Delivered ==
  \A i \in 1..Len(eventEmitter.listeners) :
     eventEmitter.listeners[i].user => dashboard'.locationCheckLoading

Complete(flags) == flags.present = FlagNames
Valid(flags) == Complete(flags) /\ flags.data \in FlagValues

\* the flags of the document where it holds them, the defaults elsewhere
OthersKeepDefault(flags, document) ==
  \A name \in FlagNames :
     flags.data[name] =
       IF document.exists /\ name \in document.flags.present
         THEN document.flags.data[name]
         ELSE DEFAULT_FEATURE_FLAGS.data[name]

\* a call of getFeatureFlagsWithFallback returns in this step
FlagsReturned == <<fn, args, result>>' # <<fn, args, result>>

\* C21: getFeatureFlagsWithFallback never fails and returns a complete valid
\* set, the provider never exposes a set with a flag missing; without a
\* document or when the read fails the flags returned are the defaults, and
\* with a document that holds some of the flags the others keep their default
C21_FlagsCompleteWithDefaults ==
  /\ [](/\ Valid(provider.flags)
        /\ fn = "getFeatureFlagsWithFallback" =>
             (result.error = "none" /\ Valid(result.value)))
  /\ [][FlagsReturned =>
          IF ~flagsDoc.exists \/ ~args'.readOk
            THEN result'.value = DEFAULT_FEATURE_FLAGS
            ELSE OthersKeepDefault(result'.value, flagsDoc)]_vars

\* a document that holds some flags, not all, has been read by the service
\* and by the provider's listener, and a flag is not at its default
C21_Witness ==
  /\ fn = "getFeatureFlagsWithFallback"
  /\ args.readOk
  /\ flagsDoc.exists
  /\ flagsDoc.flags.present \notin {{}, FlagNames}
  /\ result.value # DEFAULT_FEATURE_FLAGS
  /\ OthersKeepDefault(result.value, flagsDoc)
  /\ provider.mounted
  /\ provider.flags = result.value

\* C28: at most one snapshot listener is subscribed, and none once the
\* provider is unmounted or the user has no businessId
C28_OneListenerNoneAfterwards ==
  /\ Cardinality(subscriptions) <= 1
  /\ (~provider.mounted \/ ~provider.businessId) => subscriptions = {}

\* ---- properties of the stored records -------------------------------------
\* C26: two consecutive stored records of the same calendar day never have the
\* same type, whatever the screens have cached
C26_RecordsOfADayAlternate ==
  \A i \in 1..(Len(clockRecords) - 1) :
     toDateString(clockRecords[i].timestamp) = toDateString(clockRecords[i + 1].timestamp)
       => clockRecords[i].type # clockRecords[i + 1].type

\* ---- properties of the CRM synchronisation --------------------------------
Resolves(s) == Completes(s) /\ outcomes'[s] = "resolved"
Rejects(s) ==
  /\ outcomes'[s] = "rejected"
  /\ outcomes[s] # "rejected" \/ calls'[s] # calls[s]

\* C23: after a clockIn or clockOut that completed, the status of
\* crmUserStatus equals the status of userClockStatus, and both are the
\* status of the record written
C23_CrmShowsSameStatus ==
  [][\A s \in Screens :
       Resolves(s) =>
         /\ crmUserStatus'.status = userClockStatus'.status
         /\ userClockStatus'.status = StatusOf(calls[s].type)]_vars

\* C24: once its record is stored, the clock operation completes whatever
\* happens to the CRM sync, to the audit log and to the broadcast, and the
\* record stays stored
C24_SyncFailureDoesNotBlock ==
  /\ [][\A s \in Screens :
         (Completes(s) /\ clockRecords' # clockRecords) =>
           /\ outcomes'[s] = "resolved"
           /\ clockRecords' = Append(clockRecords,
                                     NewClockRecord(calls[s].type, calls[s].distance, now))]_vars
  /\ [][/\ Len(clockRecords') >= Len(clockRecords)
        /\ SubSeq(clockRecords', 1, Len(clockRecords)) = clockRecords]_vars

\* a call has resolved with its record stored while the three CRM writes
\* failed every time
C24_Witness ==
  /\ \E s \in Screens : outcomes[s] = "resolved"
  /\ Len(clockRecords) > 0
  /\ crmUserStatus = NoStatusDoc
  /\ crmSyncLogs = << >>
  /\ realTimeUpdates = NoStatusDoc

\* C25: a clockIn or clockOut that fails has written nothing: no clock
\* record, no userClockStatus, no CRM status, no sync log, no broadcast
C25_FailedCallWritesNothing ==
  [][\A s \in Screens :
       Rejects(s) =>
         UNCHANGED <<clockRecords, userClockStatus, crmUserStatus, crmSyncLogs,
                     realTimeUpdates>>]_vars

\* a call of one screen was rejected beside a call of the other that wrote
\* its record, its statuses, its log and its broadcast
C25_Witness ==
  /\ \E s, t \in Screens : outcomes[s] = "rejected" /\ outcomes[t] = "resolved"
  /\ Len(clockRecords) = 1
  /\ userClockStatus # NoStatusDoc
  /\ crmUserStatus # NoStatusDoc
  /\ Len(crmSyncLogs) = 1
  /\ realTimeUpdates # NoStatusDoc

\* ---- properties of the dashboard's loads -----------------------------------
Finishes(id) == id \in InFlightLoads /\ dashLoads' = WithoutLoad(id)
FinishedBefore(id) == id <= dashLoadsStarted /\ id \notin InFlightLoads

\* C27: the response of a load never replaces what a load started after it
\* has displayed, and locationCheckLoading is false only when no load is in
\* flight
C27_OlderLoadNeverOverwrites ==
  /\ [][\A older \in 1..MaxLoads :
         (Finishes(older) /\ \E newer \in (older + 1)..MaxLoads : FinishedBefore(newer))
           => dashScreen'.clockStatus = dashScreen.clockStatus]_vars
  /\ []((dashScreen.user /\ ~dashScreen.locationCheckLoading) => dashLoads = << >>)

\* ---- properties of the authentication ---------------------------------------
\* a call of f returns in this step
Called(f) == fn' = f /\ (fn # f \/ args' # args \/ result' # result)

\* C29: when signOut returns it has not thrown, the user is null, the cached
\* staff record is removed and loading is false; a signIn that fails leaves
\* the user as it was, sets loading false and rethrows the error
C29_SignOutAlwaysCompletes ==
  [][/\ Called("signOut") =>
          /\ result'.error = "none"
          /\ ~authContext'.user
          /\ ~asyncStorage'
          /\ ~authContext'.loading
     /\ (Called("signIn") /\ ~(args'.authOk /\ args'.staffFound /\ args'.storeOk)) =>
          /\ result'.error # "none"
          /\ authContext'.user = authContext.user
          /\ ~authContext'.loading]_vars

\* ---- properties of the commission -------------------------------------------
\* the part of the sales that lies between minQAR and maxQAR
SalesWithin(sales, bracket) ==
  Max(0, Min(sales, bracket.maxQAR) - bracket.minQAR)

RECURSIVE ProgressiveFrom(_, _, _)
ProgressiveFrom(sales, brackets, i) ==
  IF i > Len(brackets) THEN 0
  ELSE SalesWithin(sales, brackets[i]) * brackets[i].ratePercent
         + ProgressiveFrom(sales, brackets, i + 1)

HighestRate(brackets) ==
  IF Len(brackets) = 0 THEN 0
  ELSE CHOOSE r \in {brackets[i].ratePercent : i \in 1..Len(brackets)} :
         \A i \in 1..Len(brackets) : brackets[i].ratePercent <= r

\* C30: for ascending contiguous brackets calculateCommission is the sum over
\* the brackets of ratePercent/100 times the part of the sales between the
\* bracket's minQAR and maxQAR; sales of 0 give 0 and the result is never more
\* than the sales times the highest rate
C30_CommissionIsProgressive ==
  Evaluated("calculateCommission") =>
    /\ result.value = ProgressiveFrom(args.sales, args.brackets, 1)
    /\ args.sales = 0 => result.value = 0
    /\ result.value <= args.sales * HighestRate(args.brackets)

====
